---- MODULE Spec2Model ----
(***************************************************************************)
(* Model of analyses/gfed.py: return_gfed_emissions, the year-by-year      *)
(* ingestion and aggregation of GFED fire emissions.                       *)
(*                                                                         *)
(* Numbers.  The source works in floating point.  The model is exact: a    *)
(* carbon value is a small natural number and every CO2 quantity is held   *)
(* in hundredths, so that the conversion constant 3.66 is the integer 366. *)
(* The final multiplication by 1e-12 is kept as a decimal exponent.        *)
(*                                                                         *)
(* Rasters.  The 720 x 1440 grid of the source is a raster over Cells.     *)
(*                                                                         *)
(* The archive.  The remote archive is revealed one year at a time: the    *)
(* response to the open of a year is chosen when the year is opened and    *)
(* recorded in archive.  The ancillary rasters (grid-cell area, basis      *)
(* regions, axes) are the same in every file of the archive.               *)
(*                                                                         *)
(* The handle f is read after the with-block that opened it has ended; the *)
(* model takes the reads to succeed, as the file reader is an external     *)
(* collaborator.                                                           *)
(***************************************************************************)
EXTENDS Integers, Sequences, FiniteSets, TLC

(* ------------------------------ bounds --------------------------------- *)
\* Largest number of years in [start_year, end_year].
MaxSpan == 3
\* Number of grid cells of a raster.
NumCells == 2
\* Largest monthly carbon value of a cell.
MaxCarbon == 2
\* Earliest start_year tried; start_year is BaseYear or BaseYear + 1.
BaseYear == 2015

(* ------------------------- program constants --------------------------- *)
\* C_TO_CO2_CONVERSION = 3.66, in hundredths.
C_TO_CO2_CONVERSION == 366
\* Files of years before 2017 and from 2017 on are named differently.
CUTOVER_YEAR == 2017
\* The region id selected by ds_CO2.where(mask == 4).
REGION_ID == 4
\* range(12): the months of a year.
NUM_MONTHS == 12
\* range(6): the sources of the partitioning mode.
NUM_SOURCES == 6
\* CO2_table.squeeze() * 1e-12: the decimal exponent of the macro unit.
MACRO_EXP == -12

months == <<"01", "02", "03", "04", "05", "06", "07", "08", "09", "10", "11", "12">>
sources == <<"SAVA", "BORF", "TEMF", "DEFO", "PEAT", "AGRI">>

Cells == 1..NumCells
zeros == [c \in Cells |-> 0]

\* A Python name is unbound (<<>>) or bound to a value (<<v>>).
Unbound == <<>>
Bound(v) == <<v>>
IsBound(x) == x # Unbound
ValueOf(x) == x[1]

RECURSIVE SumSeq(_)
SumSeq(s) == IF s = <<>> THEN 0 ELSE Head(s) + SumSeq(Tail(s))

(* ------------------------- the remote archive -------------------------- *)
\* The path of a year's file: two naming patterns around the cutover year.
annual_file(y) ==
    IF y < CUTOVER_YEAR
    THEN <<"/GFED4.1s_", y, ".hdf5">>
    ELSE <<"/GFED4.1s_", y, "_beta.hdf5">>

AllMonths == {months[i] : i \in 1..NUM_MONTHS}
AllSources == {sources[i] : i \in 1..NUM_SOURCES}

\* The monthly datasets a file may hold: all twelve, nine of them, none.
MonthChoices == {AllMonths, AllMonths \ {"03", "07", "11"}, {}}
\* The partitioning datasets a file may hold (the same in every month).
SourceChoices(part) == IF part THEN {AllSources, AllSources \ {"SAVA"}}
                               ELSE {AllSources}
\* A file: the monthly datasets present, the partitioning datasets present,
\* and a profile that fixes the carbon values.
FileChoices(part) ==
    [months : MonthChoices, sources : SourceChoices(part), profile : 0..1]

\* f['/emissions/<mm>/C'][:] of a file, for month index m (0-based).
CarbonOf(file, m) ==
    [c \in Cells |-> (file.profile + m + c) % (MaxCarbon + 1)]
\* f['/emissions/<mm>/partitioning/C_<source>'][:], source index s (0-based).
ContributionOf(file, m, s) ==
    [c \in Cells |-> (m + s + c) % 2]

\* The exceptions an open of a remote file may end with.
OpenErrors == {"FileNotFoundError", "ClientResponseError"}

\* The grid-cell areas the archive's ancillary raster may hold.
AreaChoices == {[c \in Cells |-> 2], [c \in Cells |-> c]}
\* The region ids the mask provider may return for the grid.
RegionChoices == {[c \in Cells |-> REGION_ID],
                  [c \in Cells |-> IF c = 1 THEN REGION_ID ELSE REGION_ID + 1]}

VARIABLES
    start_year, end_year, return_spatial,   \* the arguments
    partitioning,                           \* the mode flag of line 66
    ancill,                                 \* the archive's ancillary data
    provider,                               \* the mask provider's region grid
    archive,                                \* the responses to the opens so far
    pc, year, exception,                    \* control
    f,                                      \* the open file
    basis_regions, grid_area, lat_values, lon_values,
    CO2_emissions, CO2_table, ds_CO2_list,
    mask, mask_calls,
    stdout,
    CO2_df, full_ds

vars == <<start_year, end_year, return_spatial, partitioning, ancill, provider,
          archive, pc, year, exception, f, basis_regions, grid_area,
          lat_values, lon_values, CO2_emissions, CO2_table, ds_CO2_list,
          mask, mask_calls, stdout, CO2_df, full_ds>>

args == <<start_year, end_year, return_spatial, partitioning, ancill, provider>>
static == <<basis_regions, grid_area, lat_values, lon_values>>

Years == start_year..end_year
NumYears == end_year - start_year + 1

(* ------------------------------- Init ---------------------------------- *)
InitWith(part) ==
    /\ start_year \in BaseYear..(BaseYear + 1)
    /\ end_year \in start_year..(start_year + MaxSpan - 1)
    /\ return_spatial \in BOOLEAN
    /\ partitioning = part
    /\ ancill \in [grid_cell_area : AreaChoices,
                   basis_regions : {[c \in Cells |-> c]},
                   lat : {<<"lat">>}, lon : {<<"lon">>}]
    /\ provider \in RegionChoices
    /\ archive = [y \in Years |-> Unbound]
    /\ pc = "open"
    /\ year = start_year
    /\ exception = "none"
    /\ f = Unbound
    /\ basis_regions = Unbound
    /\ grid_area = Unbound
    /\ lat_values = Unbound
    /\ lon_values = Unbound
    /\ CO2_emissions = Unbound
    /\ CO2_table = [i \in 1..NumYears |-> 0]
    /\ ds_CO2_list = <<>>
    /\ mask = Unbound
    /\ mask_calls = 0
    /\ stdout = <<>>
    /\ CO2_df = Unbound
    /\ full_ds = Unbound

\* partitioning = False, as the source sets it.
Init == InitWith(FALSE)
\* The source-partitioning mode switched on.
InitPartitioning == InitWith(TRUE)

(* ------------------------ AnnualFieldExtractor -------------------------- *)
\* CO2_emissions += C_emissions * C_TO_CO2_CONVERSION
AddMonthUnconverted(CO2, C) == [c \in Cells |-> CO2[c] + C[c]]
AddMonth(CO2, C) == [c \in Cells |-> CO2[c] + C[c] * C_TO_CO2_CONVERSION]

\* The loop over the sources of one month.  The first source read decides it:
\* a missing dataset raises KeyError, and a dataset that is there reaches
\* "C_emisisons += ...", a name the function never binds.
SourceLoop(file, m, s) ==
    IF s = NUM_SOURCES THEN "none"
    ELSE IF sources[s + 1] \notin file.sources THEN "KeyError"
    ELSE "UnboundLocalError: C_emisisons"

\* The body of the try of one month: the accumulator and the exception it
\* ends with.
MonthBody(part, file, m, CO2) ==
    IF months[m + 1] \notin file.months
    THEN [CO2 |-> CO2, exc |-> "KeyError"]
    ELSE IF part
         THEN [CO2 |-> CO2, exc |-> SourceLoop(file, m, 0)]
         ELSE [CO2 |-> AddMonth(CO2, CarbonOf(file, m)), exc |-> "none"]

\* for month in range(12): a KeyError is printed and the loop goes on; any
\* other exception leaves the loop.
RECURSIVE MonthLoop(_, _, _, _, _)
MonthLoop(part, file, m, CO2, out) ==
    IF m = NUM_MONTHS
    THEN [CO2 |-> CO2, out |-> out, exc |-> "none"]
    ELSE LET r == MonthBody(part, file, m, CO2)
         IN  CASE r.exc = "none" -> MonthLoop(part, file, m + 1, r.CO2, out)
               [] r.exc = "KeyError" ->
                    MonthLoop(part, file, m + 1, r.CO2,
                              Append(out, <<"TOO BAD! not available", m>>))
               [] OTHER -> [CO2 |-> r.CO2, out |-> out, exc |-> r.exc]

(* --------------------------- RegionAggregator --------------------------- *)
\* ds.where(mask == id).sum()
WhereSumUnmasked(data, msk, id) == SumSeq([c \in Cells |-> data[c]])
WhereSum(data, msk, id) ==
    SumSeq([c \in Cells |-> IF msk[c] = id THEN data[c] ELSE 0])

\* if year == start_year: the guard of the capture of the static rasters.
CaptureNeeded(y, s) == y = s
\* if year==start_year: the guard of the call of the mask provider.
MaskNeededEveryYear(y, s) == TRUE
MaskNeeded(y, s) == y = s

\* CO2_table[0, year-start_year], as an index from 1.
TableColumn(y, s) == y - s + 1

(* -------------------------- TimeSeriesAssembler ------------------------- *)
\* pd.Timestamp(str(y)): the first day of the year.
Timestamp(y) == <<y, 1, 1>>
\* The anchor of the yearly frequencies 'Y' and 'A': the last day of a year.
YearBegin(y) == <<y, 1, 1>>
YearEnd(y) == <<y, 12, 31>>
NotAfter(a, b) ==
    \/ a[1] < b[1]
    \/ a[1] = b[1] /\ a[2] < b[2]
    \/ a[1] = b[1] /\ a[2] = b[2] /\ a[3] <= b[3]

\* pd.date_range(str(s), str(e), freq='Y'): the year ends from the first
\* day of s to the first day of e.
date_range(s, e) ==
    LET ys == {y \in s..e : /\ NotAfter(Timestamp(s), YearEnd(y))
                           /\ NotAfter(YearEnd(y), Timestamp(e))}
        first == CHOOSE y \in ys : \A z \in ys : y <= z
    IN  [i \in 1..Cardinality(ys) |-> YearEnd(first + i - 1)]

\* x * 1e-12
Macro(x) == [mant |-> x, exp |-> MACRO_EXP]

\* pd.Series(CO2_table.squeeze() * 1e-12, index=...): a table of one column
\* squeezes to a scalar, which is repeated along the index; otherwise the
\* lengths must agree (<<>> stands for the ValueError).
Series(table, index) ==
    IF Len(table) = 1
    THEN Bound([index |-> index,
                values |-> [i \in 1..Len(index) |-> Macro(table[1])]])
    ELSE IF Len(table) # Len(index)
    THEN Unbound
    ELSE Bound([index |-> index,
                values |-> [i \in 1..Len(table) |-> Macro(table[i])]])

(* ------------------------------ actions --------------------------------- *)
\* The end of an iteration of "for year in range(start_year, end_year+1)".
NextYear ==
    /\ year' = year + 1
    /\ pc' = IF year + 1 > end_year THEN "finalize" ELSE "open"

Raise(exc) ==
    /\ pc' = "raised"
    /\ exception' = exc

\* except FileNotFoundError
CaughtAny(exc) == TRUE
Caught(exc) == exc = "FileNotFoundError"

\* print(f'Data not available for {year}'); continue
SkipYearAppends ==
    /\ stdout' = Append(stdout, <<"Data not available for", year>>)
    /\ ds_CO2_list' = Append(ds_CO2_list, [data |-> zeros,
                                           lat |-> lat_values,
                                           lon |-> lon_values])
    /\ NextYear
    /\ UNCHANGED <<exception, f, static, CO2_emissions, CO2_table,
                   mask, mask_calls, CO2_df, full_ds>>
SkipYear ==
    /\ stdout' = Append(stdout, <<"Data not available for", year>>)
    /\ NextYear
    /\ UNCHANGED <<exception, f, static, CO2_emissions, CO2_table,
                   ds_CO2_list, mask, mask_calls, CO2_df, full_ds>>

\* The open of the year's file succeeds.
OpenOk ==
    /\ pc = "open"
    /\ \E file \in FileChoices(partitioning) :
         /\ archive' = [archive EXCEPT ![year] =
                          Bound([path |-> annual_file(year), exc |-> "none",
                                 file |-> Bound(file)])]
         /\ f' = Bound(file)
    /\ pc' = "capture"
    /\ UNCHANGED <<args, year, exception, static, CO2_emissions, CO2_table,
                   ds_CO2_list, mask, mask_calls, stdout, CO2_df, full_ds>>

\* The open of the year's file raises.
OpenFails ==
    /\ pc = "open"
    /\ \E exc \in OpenErrors :
         /\ archive' = [archive EXCEPT ![year] =
                          Bound([path |-> annual_file(year), exc |-> exc,
                                 file |-> Unbound])]
         /\ IF Caught(exc)
            THEN SkipYear
            ELSE /\ Raise(exc)
                 /\ UNCHANGED <<year, f, static, CO2_emissions, CO2_table,
                                ds_CO2_list, mask, mask_calls, stdout,
                                CO2_df, full_ds>>
    /\ UNCHANGED args

\* if year == start_year: the static rasters are read from the file.
Capture ==
    /\ pc = "capture"
    /\ IF CaptureNeeded(year, start_year)
       THEN /\ basis_regions' = Bound(ancill.basis_regions)
            /\ grid_area' = Bound(ancill.grid_cell_area)
            /\ lat_values' = Bound(ancill.lat)
            /\ lon_values' = Bound(ancill.lon)
       ELSE UNCHANGED static
    /\ pc' = "extract"
    /\ UNCHANGED <<args, archive, year, exception, f, CO2_emissions,
                   CO2_table, ds_CO2_list, mask, mask_calls, stdout,
                   CO2_df, full_ds>>

\* CO2_emissions = np.zeros(...) and the loop over the months.
Extract ==
    /\ pc = "extract"
    /\ LET r == MonthLoop(partitioning, ValueOf(f), 0, zeros, <<>>)
       IN  /\ CO2_emissions' = Bound(r.CO2)
           /\ stdout' = stdout \o r.out
           /\ IF r.exc = "none"
              THEN pc' = "aggregate" /\ UNCHANGED exception
              ELSE Raise(r.exc)
    /\ UNCHANGED <<args, archive, year, f, static, CO2_table, ds_CO2_list,
                   mask, mask_calls, CO2_df, full_ds>>

\* The else branch of "if gfeds_regions" (gfeds_regions = False): the
\* area-weighted raster is kept, the mask is computed in the first year, and
\* the region total is written to the year's column.
Aggregate ==
    /\ pc = "aggregate"
    /\ IF ~IsBound(grid_area) \/ ~IsBound(lat_values) \/ ~IsBound(lon_values)
       THEN /\ Raise(IF ~IsBound(grid_area)
                     THEN "UnboundLocalError: grid_area"
                     ELSE IF ~IsBound(lat_values)
                     THEN "UnboundLocalError: lat_values"
                     ELSE "UnboundLocalError: lon_values")
            /\ UNCHANGED <<year, CO2_table, ds_CO2_list, mask, mask_calls>>
       ELSE LET ds_CO2 == [data |-> [c \in Cells |->
                                      ValueOf(CO2_emissions)[c]
                                        * ValueOf(grid_area)[c]],
                           lat |-> lat_values, lon |-> lon_values]
                called == MaskNeeded(year, start_year)
                msk == IF called THEN Bound(provider) ELSE mask
            IN  /\ ds_CO2_list' = Append(ds_CO2_list, ds_CO2)
                /\ mask' = msk
                /\ mask_calls' = IF called THEN mask_calls + 1 ELSE mask_calls
                /\ IF ~IsBound(msk)
                   THEN /\ Raise("UnboundLocalError: mask")
                        /\ UNCHANGED <<year, CO2_table>>
                   ELSE /\ CO2_table' =
                             [CO2_table EXCEPT ![TableColumn(year, start_year)] =
                                WhereSum(ds_CO2.data, ValueOf(msk), REGION_ID)]
                        /\ NextYear
                        /\ UNCHANGED exception
    /\ UNCHANGED <<args, archive, f, static, CO2_emissions, stdout,
                   CO2_df, full_ds>>

\* After the loop: the series, and the stacked rasters when asked for.
\* xr.concat of an empty list raises, and so does a time axis whose length
\* is not the number of stacked rasters.
Finalize ==
    /\ pc = "finalize"
    /\ LET index == date_range(start_year, end_year + 1)
           df == Series(CO2_table, index)
       IN  /\ CO2_df' = df
           /\ IF ~IsBound(df)
              THEN Raise("ValueError") /\ UNCHANGED full_ds
              ELSE IF ~return_spatial
              THEN pc' = "done" /\ UNCHANGED <<exception, full_ds>>
              ELSE IF ds_CO2_list = <<>> \/ Len(ds_CO2_list) # Len(index)
              THEN Raise("ValueError") /\ UNCHANGED full_ds
              ELSE /\ full_ds' = Bound([name |-> "emissions MMT CO2/year",
                                        time |-> index,
                                        data |-> ds_CO2_list])
                   /\ pc' = "done"
                   /\ UNCHANGED exception
    /\ UNCHANGED <<args, archive, year, f, static, CO2_emissions, CO2_table,
                   ds_CO2_list, mask, mask_calls, stdout>>

Next ==
    \/ OpenOk
    \/ OpenFails
    \/ Capture
    \/ Extract
    \/ Aggregate
    \/ Finalize

Spec == Init /\ [][Next]_vars
SpecPartitioning == InitPartitioning /\ [][Next]_vars

(* ------------------------ what the claims speak of ---------------------- *)
\* The year's open has happened and succeeded / ended with the given error.
Opened(y) == IsBound(archive[y]) /\ ValueOf(archive[y]).exc = "none"
Absent(y) == IsBound(archive[y]) /\ ValueOf(archive[y]).exc = "FileNotFoundError"
TransportError(y) ==
    IsBound(archive[y]) /\ ValueOf(archive[y]).exc = "ClientResponseError"
FileOf(y) == ValueOf(ValueOf(archive[y]).file)

\* The loop has ended and the statements after it have run.
Finalized == pc \in {"done", "raised"} /\ year > end_year

\* The sum of fn[x] over the x of S.
RECURSIVE SetSum(_, _)
SetSum(S, fn) ==
    IF S = {} THEN 0
    ELSE LET x == CHOOSE x \in S : TRUE IN fn[x] + SetSum(S \ {x}, fn)

MonthIndices == 0..(NUM_MONTHS - 1)
SourceIndices == 0..(NUM_SOURCES - 1)
PresentMonths(file) == {m \in MonthIndices : months[m + 1] \in file.months}
PresentSources(file) == {s \in SourceIndices : sources[s + 1] \in file.sources}

\* The conversion constant times the sum of the monthly rasters present.
AnnualField(file) ==
    [c \in Cells |->
       C_TO_CO2_CONVERSION
         * SetSum(PresentMonths(file),
                  [m \in MonthIndices |-> CarbonOf(file, m)[c]])]

\* The annual field of a file, times the grid-cell area.
WeightedField(file) ==
    [c \in Cells |-> AnnualField(file)[c] * ancill.grid_cell_area[c]]

\* The area-weighted annual field of a year summed over the selected region.
RegionTotal(y) ==
    SetSum({c \in Cells : provider[c] = REGION_ID}, WeightedField(FileOf(y)))

\* Per month, the carbon raster times each source fraction present.
PartitionedField(file) ==
    [c \in Cells |->
       SetSum(PresentMonths(file),
              [m \in MonthIndices |->
                 SetSum(PresentSources(file),
                        [s \in SourceIndices |->
                           CarbonOf(file, m)[c]
                             * ContributionOf(file, m, s)[c]])])]

(* -------------------------------- claims -------------------------------- *)
\* C1: a year whose file is absent (start_year included) does not make the
\* run raise in the iteration of a later year whose file is available, and
\* once the loop is past that later year its total is in the series' table.
C1_AbsentYearDoesNotStopLaterYears ==
    \A y \in Years : \A z \in Years :
       (Absent(y) /\ y < z /\ Opened(z)) =>
          /\ pc = "raised" => year > z
          /\ year > z => CO2_table[z - start_year + 1] = RegionTotal(z)

\* C2: the static grid metadata is captured from the first year whose file
\* opens, before that year's months are processed: in every year whose
\* months are about to be processed or that is about to be aggregated, the
\* grid-cell area, the axes and the basis regions are bound.
C2_GridCapturedBeforeMonths ==
    pc \in {"extract", "aggregate"} =>
       /\ grid_area = Bound(ancill.grid_cell_area)
       /\ basis_regions = Bound(ancill.basis_regions)
       /\ lat_values = Bound(ancill.lat)
       /\ lon_values = Bound(ancill.lon)

\* C3: when the function returns, the series has one value per year of
\* [start_year, end_year]; the value of a processed year is its region total
\* times 1e-12, and the value of an absent year is zero.
C3_SeriesSpansRange ==
    pc = "done" =>
       /\ IsBound(CO2_df)
       /\ Len(ValueOf(CO2_df).values) = NumYears
       /\ \A y \in Years :
            ValueOf(CO2_df).values[y - start_year + 1] =
               IF Opened(y) THEN Macro(RegionTotal(y)) ELSE Macro(0)

\* A run has returned a series with a skipped year and a processed year of
\* positive total.
C3_Witness ==
    /\ pc = "done"
    /\ \E y \in Years : Absent(y)
    /\ \E y \in Years : Opened(y) /\ RegionTotal(y) > 0

\* C4: in a run in which at least two years have opened, the mask provider
\* has been called exactly once, the mask is the provider's, and the total of
\* every year aggregated so far is the sum over that mask.
C4_MaskComputedOnce ==
    Cardinality({y \in Years : Opened(y)}) >= 2 =>
       /\ mask_calls = 1
       /\ mask = Bound(provider)
       /\ \A y \in Years :
            (Opened(y) /\ year > y) =>
               CO2_table[y - start_year + 1] = RegionTotal(y)

\* Two years have opened and been aggregated, and the run has returned.
C4_Witness ==
    /\ pc = "done"
    /\ Cardinality({y \in Years : Opened(y)}) >= 2
    /\ Len(ds_CO2_list) >= 2

\* C5: when spatial output is requested and at least one year was processed,
\* the run ends with a stacked dataset that has one raster per time label of
\* the series, and the raster at the label of an opened year is that year's
\* area-weighted annual field, whichever years were absent.
C5_SpatialMatchesSeries ==
    (Finalized /\ return_spatial /\ \E y \in Years : Opened(y)) =>
       /\ pc = "done"
       /\ IsBound(full_ds)
       /\ Len(ValueOf(full_ds).data) = Len(ValueOf(CO2_df).index)
       /\ \A y \in Years :
            Opened(y) =>
               ValueOf(full_ds).data[y - start_year + 1].data =
                  WeightedField(FileOf(y))

\* C6: for a year whose file opens, the annual field is the conversion
\* constant times the sum of the monthly rasters present in the file; a
\* missing month never ends the year with a KeyError.
C6_AnnualFieldIsSumOfPresentMonths ==
    ~partitioning =>
       /\ pc = "aggregate" =>
             CO2_emissions = Bound(AnnualField(ValueOf(f)))
       /\ exception # "KeyError"
       /\ pc = "raised" => exception # "UnboundLocalError: C_emisisons"

\* A year with nine of its twelve months has been extracted, with a
\* positive field, and the three gaps have been reported.
C6_Witness ==
    /\ pc = "aggregate"
    /\ ~partitioning
    /\ Cardinality(ValueOf(f).months) = 9
    /\ \E c \in Cells : ValueOf(CO2_emissions)[c] > 0
    /\ Len(stdout) >= 3

\* C7, as claimed: an open that fails for a reason other than not-found is
\* handled as a not-found: the year is skipped and the loop goes on.
C7_TransportErrorSkipsYear ==
    \A y \in Years : TransportError(y) => (pc # "raised" /\ year > y)

\* C7, amended: an open that fails for a reason other than not-found is not
\* caught: the exception leaves the function in that year's iteration, and
\* nothing is returned.
C7_TransportErrorAborts ==
    \A y \in Years :
       TransportError(y) =>
          /\ pc = "raised"
          /\ exception = "ClientResponseError"
          /\ year = y
          /\ ~IsBound(CO2_df)

\* A transport error has ended a run in which an earlier year was processed.
C7_Witness ==
    \E y \in Years :
       /\ TransportError(y)
       /\ pc = "raised"
       /\ \E z \in Years : z < y /\ Opened(z)

\* C8, as claimed: the series has end_year - start_year + 2 labels, one
\* more than its accumulated values.
C8_OneLabelMoreThanValues ==
    pc = "done" => Len(ValueOf(CO2_df).index) = end_year - start_year + 2

\* C8, amended: the labels are the year ends of start_year .. end_year:
\* end_year - start_year + 1 of them, as many as the accumulated values.
C8_LabelsMatchValues ==
    Finalized =>
       /\ IsBound(CO2_df)
       /\ Len(ValueOf(CO2_df).index) = end_year - start_year + 1
       /\ Len(ValueOf(CO2_df).index) = Len(CO2_table)
       /\ Len(ValueOf(CO2_df).values) = Len(CO2_table)
       /\ \A y \in Years :
            ValueOf(CO2_df).index[y - start_year + 1] = <<y, 12, 31>>

\* A series over at least two years has been returned.
C8_Witness ==
    /\ pc = "done"
    /\ NumYears >= 2
    /\ Len(ValueOf(CO2_df).index) = NumYears

\* C9: an iteration whose file is not found leaves the table, the retained
\* rasters, the grid metadata and the mask as they were.
C9_NotFoundWritesNothing ==
    [][(pc = "open" /\ IsBound(archive'[year])
          /\ ValueOf(archive'[year]).exc = "FileNotFoundError")
       => UNCHANGED <<CO2_table, ds_CO2_list, static, mask>>]_vars

\* A year has just been skipped in a run that holds a raster, a total and
\* the mask of an earlier year.
C9_Witness ==
    /\ year > start_year
    /\ year - 1 \in Years
    /\ Absent(year - 1)
    /\ Len(ds_CO2_list) >= 1
    /\ IsBound(mask)
    /\ \E i \in 1..NumYears : CO2_table[i] > 0

====
